---- MODULE Spec2Model ----
(***************************************************************************)
(* A model of textattack.shared.attack.Attack: engine construction, the    *)
(* cached constraint filter (get_transformations / filter_transformations  *)
(* / _filter_transformations_uncached over an lru.LRU cache) and the lazy  *)
(* dataset traversal (attack_dataset / _get_examples_from_dataset /        *)
(* attack_one).                                                            *)
(*                                                                         *)
(* Three specifications share the module:                                  *)
(*   Spec         the constraint filter and its cache                      *)
(*   SpecInit     Attack.__init__                                          *)
(*   SpecDataset  attack_dataset over a dataset                            *)
(***************************************************************************)
EXTENDS Integers, Sequences, FiniteSets, TLC

VARIABLES
    \* ---- engine fields (Attack.__init__) ----
    constraints,            \* self.constraints: post-transformation constraints, in order
    constraint_cache_size,  \* self.constraint_cache_size
    constraints_cache,      \* self.constraints_cache: lru.LRU, least recent first
    \* ---- one call of filter_transformations ----
    pc,                     \* position inside the call
    transformed_texts,      \* argument: the candidates, in the caller's order
    current_text,           \* argument
    original_text,          \* argument
    uncached_texts,         \* local of filter_transformations (line 150)
    filtered_texts,         \* local of _filter_transformations_uncached (line 122)
    c_idx,                  \* index of the next constraint of the loop of line 123
    w_idx,                  \* index of the next cache write of lines 130-134
    result,                 \* the returned list
    call_error,             \* the error the call raised instead of returning
    \* ---- observations of the call (history, not program state) ----
    invocations,            \* the call_many invocations of this call, in order
    repeat,                 \* TRUE while the call repeats the previous call's arguments
    prev_result,            \* what the previous call returned (when repeat)
    evicted,                \* the keys the cache has dropped during this call
    \* ---- Attack.__init__ ----
    ctor_pc,                \* position inside __init__
    init_args,              \* the arguments of the constructor call
    sm_compatible,          \* what check_transformation_compatibility answers
    goal_function,          \* self.goal_function
    search_method,          \* self.search_method
    transformation,         \* self.transformation
    is_black_box,           \* self.is_black_box
    pre_transformation_constraints,   \* self.pre_transformation_constraints
    bound,                  \* the callbacks bound onto the search method
    compat_queries,         \* the transformations the compatibility query was made with
    ctor_error,             \* the error __init__ raised
    \* ---- attack_dataset ----
    ds_pc,                  \* position of the two generators
    dataset,                \* the dataset: (text, ground_truth_output) pairs
    has_label_names,        \* whether the dataset has the label_names attribute
    caller_indices,         \* the caller's own sequence object passed as indices
    indices_arg,            \* what that object held when attack_dataset was called
    indices,                \* the local deque of _get_examples_from_dataset
    taken,                  \* how many indices have been popped
    cur_index,              \* i, the index popped last
    num_queries,            \* self.goal_function.num_queries
    query_resets,           \* resets of num_queries made for the current example
    get_result_calls,       \* get_result calls made for the current example
    search_calls,           \* search method calls made for the current example
    search_arg,             \* what the search method was called with
    search_queries,         \* queries the search method made for the current example
    reported_output,        \* the output get_result reported for the current example
    initial_result,         \* goal_function_result of the current example
    final_result,           \* what the search method returned
    outcome,                \* the outcome at the yield of attack_dataset
    yielded,                \* the indices whose outcome has been yielded, in order
    ds_error,               \* the error the traversal raised
    \* ---- WordEmbeddingDistance ----
    include_unknown_words,  \* self.include_unknown_words
    cased,                  \* self.cased
    min_cos_sim,            \* self.min_cos_sim: None or a similarity (in hundredths)
    max_mse_dist,           \* self.max_mse_dist: None or a distance
    cos_sim_mat,            \* self.cos_sim_mat: dict of dicts, mat[a][b] with a <= b
    mse_dist_mat,           \* self.mse_dist_mat
    wed_call,               \* the last call on the constraint and what it gave
    unmarked                \* the candidate texts the transformation produces
                            \* without newly_modified_indices in attack_attrs

engineVars == <<constraints, constraint_cache_size, constraints_cache>>

callVars == <<pc, transformed_texts, current_text, original_text, uncached_texts,
              filtered_texts, c_idx, w_idx, result, call_error, invocations, repeat,
              prev_result, evicted>>

ctorVars == <<ctor_pc, init_args, sm_compatible, goal_function, search_method,
              transformation, is_black_box, pre_transformation_constraints, bound,
              compat_queries, ctor_error>>

dataVars == <<ds_pc, dataset, has_label_names, caller_indices, indices_arg,
              indices, taken, cur_index, num_queries, query_resets, get_result_calls, search_calls, search_arg,
              search_queries, reported_output, initial_result, final_result, outcome, yielded,
              ds_error>>

wedVars == <<include_unknown_words, cased, min_cos_sim, max_mse_dist, cos_sim_mat,
             mse_dist_mat, wed_call, unmarked>>

vars == <<engineVars, callVars, ctorVars, dataVars, wedVars>>

(***************************************************************************)
(* Bounds of the model.                                                    *)
(***************************************************************************)
MaxCands == 2          \* longest candidate list handed to the filter
MaxCacheSize == 2      \* largest constraint_cache_size configured
MaxConstraints == 2    \* longest constraint list handed to the constructor
MaxDataset == 2        \* largest dataset
MaxIndices == 2        \* longest explicit index sequence
MaxSearchQueries == 1  \* most goal-function queries one search makes

(***************************************************************************)
(* AttackedText: a tokenized text is its sequence of words; equality and   *)
(* hashing are by content.  Words are word ids; a text has two words.      *)
(***************************************************************************)
Words == {1, 2}
Texts == {<<a, b>> : a \in Words, b \in Words}
CurrentTexts == {<<1, 1>>, <<1, 2>>}
OriginalTexts == {<<1, 1>>, <<2, 2>>}

\* The number of words in which two texts of the same length differ.
WordsPerturbed(x_adv, orig) == Cardinality({j \in DOMAIN x_adv : x_adv[j] # orig[j]})

\* The transformation: the texts that differ from current_text in at most
\* one word (a word swap; the text itself can come back).  A call returns
\* any of them in any order.
Transformation(x) == {t \in Texts : WordsPerturbed(t, x) <= 1}

Range(s) == {s[j] : j \in DOMAIN s}
SeqsUpTo(S, n) == UNION {[1..k -> S] : k \in 0..n}

\* t.text: the rendered text, the words joined in order.  Rendered texts
\* compare as strings: lexicographically, word by word.
RECURSIVE TextLess(_, _)
TextLess(a, b) ==
    IF b = <<>> THEN FALSE
    ELSE IF a = <<>> THEN TRUE
    ELSE IF Head(a) < Head(b) THEN TRUE
    ELSE IF Head(a) > Head(b) THEN FALSE
    ELSE TextLess(Tail(a), Tail(b))

(***************************************************************************)
(* Post-transformation constraints.  A constraint is a predicate over      *)
(* (current_text, candidate, original_text); call_many returns the         *)
(* candidates it accepts, in their order.                                  *)
(*   DiffersFromCurrent  rejects a candidate equal to current_text         *)
(*   MaxWordsPerturbed   rejects a candidate differing from original_text  *)
(*                       in more than one word                             *)
(***************************************************************************)
ConstraintKinds == {"DiffersFromCurrent", "MaxWordsPerturbed"}
ConstraintConfigs == {<<>>,
                      <<"DiffersFromCurrent", "MaxWordsPerturbed">>,
                      <<"MaxWordsPerturbed", "DiffersFromCurrent">>}

CheckConstraint(C, x, x_adv, orig) ==
    IF C = "DiffersFromCurrent" THEN x_adv # x
    ELSE WordsPerturbed(x_adv, orig) <= 1

RECURSIVE call_many(_, _, _, _)
call_many(C, texts, x, orig) ==
    IF texts = <<>> THEN <<>>
    ELSE IF CheckConstraint(C, x, Head(texts), orig)
         THEN <<Head(texts)>> \o call_many(C, Tail(texts), x, orig)
         ELSE call_many(C, Tail(texts), x, orig)

(***************************************************************************)
(* WordEmbeddingDistance (word_embedding_distance.py).  Word tokens are    *)
(* numbers: 1, 2, 3 are lowercase words of the embedding's vocabulary, 4   *)
(* is word 1 written with a capital, 5 is a word outside the vocabulary.   *)
(* Similarities are in hundredths, distances are whole numbers.            *)
(***************************************************************************)
WEDWords == 1..5

\* str.lower()
Lower(w) == IF w = 4 THEN 1 ELSE w

\* self.word_embedding_word2index: word -> word id
word_embedding_word2index == [w \in {1, 2, 3} |-> w - 1]

WordIds == {word_embedding_word2index[w] : w \in DOMAIN word_embedding_word2index}

\* self.word_embeddings: word id -> vector
word_embeddings ==
    [id \in WordIds |-> IF id = 0 THEN <<5, 0>> ELSE IF id = 1 THEN <<4, 3>> ELSE <<-3, 4>>]

Min(a, b) == IF a <= b THEN a ELSE b
Max(a, b) == IF a >= b THEN a ELSE b
Dot(e1, e2) == e1[1] * e2[1] + e1[2] * e2[2]
ISqrt(n) == CHOOSE r \in 0..n : r * r <= n /\ n < (r + 1) * (r + 1)

\* torch.nn.CosineSimilarity(dim=0)(e1, e2), in hundredths
CosineSimilarity(e1, e2) ==
    (100 * Dot(e1, e2)) \div (ISqrt(Dot(e1, e1)) * ISqrt(Dot(e2, e2)))

\* torch.sum((e1 - e2) ** 2)
SquaredDistance(e1, e2) ==
    (e1[1] - e2[1]) * (e1[1] - e2[1]) + (e1[2] - e2[2]) * (e1[2] - e2[2])

\* An optional number: None, or a value.
None == [set |-> FALSE, val |-> 0]
Some(v) == [set |-> TRUE, val |-> v]
Truthy(opt) == opt.set /\ opt.val # 0        \* `if self.min_cos_sim:`

\* A dict: a function over the keys it holds.
EmptyDict == [k \in {} |-> 0]
DictSet(d, k, v) == [j \in DOMAIN d \cup {k} |-> IF j = k THEN v ELSE d[j]]

\* Lines 56-67: a precomputed matrix holds mat[x][y] for word ids x < y (all
\* of them, or the file covers only some); without the file, or with the
\* threshold None, the matrix starts as the empty dict.
\* The measure a matrix holds: torch's CosineSimilarity (line 82) for
\* cos_sim_mat, the squared distance (line 96) for mse_dist_mat.
Measure(metric, e1, e2) ==
    IF metric = "cos" THEN CosineSimilarity(e1, e2) ELSE SquaredDistance(e1, e2)

PrecomputedMatrix(metric, pairs) ==
    [a \in {p[1] : p \in pairs} |->
        [b \in {p[2] : p \in {q \in pairs : q[1] = a}} |->
            Measure(metric, word_embeddings[a], word_embeddings[b])]]

InitialMatrices(threshold, metric) ==
    IF threshold.set
    THEN {EmptyDict,
          PrecomputedMatrix(metric, {<<0, 1>>, <<0, 2>>, <<1, 2>>}),
          PrecomputedMatrix(metric, {<<0, 1>>, <<1, 2>>})}
    ELSE {EmptyDict}

\* get_cos_sim / get_mse_dist (lines 69-99) on a matrix: the pair is ordered,
\* looked up, and on KeyError computed and stored at mat[a][b].  The store
\* indexes mat[a] again: without that row it raises KeyError itself.
MatrixLookup(mat, a0, b0, metric) ==
    LET a == Min(a0, b0)
        b == Max(a0, b0)
    IN IF a \in DOMAIN mat /\ b \in DOMAIN mat[a]
       THEN [kind |-> "value", val |-> mat[a][b], mat |-> mat, computed |-> FALSE]
       ELSE LET v == Measure(metric, word_embeddings[a], word_embeddings[b])
            IN IF a \in DOMAIN mat
               THEN [kind |-> "value", val |-> v,
                     mat |-> [mat EXCEPT ![a] = DictSet(mat[a], b, v)],
                     computed |-> TRUE]
               ELSE [kind |-> "KeyError", val |-> 0, mat |-> mat, computed |-> TRUE]

get_cos_sim(mat, a, b) == MatrixLookup(mat, a, b, "cos")
get_mse_dist(mat, a, b) == MatrixLookup(mat, a, b, "mse")

\* What one call of _check_constraint gives: a boolean or an error, and the
\* matrices as the call leaves them.
Returned(v, cos, mse) ==
    [kind |-> "bool", detail |-> "", val |-> v, cos |-> cos, mse |-> mse]
Raised(e, what, cos, mse) ==
    [kind |-> e, detail |-> what, val |-> FALSE, cos |-> cos, mse |-> mse]

\* The threshold is unset (None or 0): the lookup is not made.
NotLookedUp(mat) == [kind |-> "value", val |-> 0, mat |-> mat, computed |-> FALSE]

\* Lines 109-138: the loop over the modified indices.  Lines 110-111 rebind
\* x and x_adv to the words at the first index, so a second iteration reads
\* .words of a str ("rebound") and raises AttributeError.
RECURSIVE CheckIndices(_, _, _, _, _, _)
CheckIndices(modified, x, x_adv, rebound, cos, mse) ==
    IF modified = <<>> THEN Returned(TRUE, cos, mse)
    ELSE IF rebound THEN Raised("AttributeError", "str.words", cos, mse)
    ELSE
      LET i == Head(modified)
          w == IF cased THEN x[i + 1] ELSE Lower(x[i + 1])
          w_adv == IF cased THEN x_adv[i + 1] ELSE Lower(x_adv[i + 1])
      IN IF w \notin DOMAIN word_embedding_word2index
            \/ w_adv \notin DOMAIN word_embedding_word2index
         THEN IF include_unknown_words
              THEN CheckIndices(Tail(modified), x, x_adv, TRUE, cos, mse)
              ELSE Returned(FALSE, cos, mse)
         ELSE
           LET x_id == word_embedding_word2index[w]
               x_adv_id == word_embedding_word2index[w_adv]
               c == IF Truthy(min_cos_sim) THEN get_cos_sim(cos, x_id, x_adv_id)
                    ELSE NotLookedUp(cos)
           IN IF c.kind = "KeyError" THEN Raised("KeyError", "matrix row", c.mat, mse)
              ELSE IF Truthy(min_cos_sim) /\ c.val < min_cos_sim.val
                   THEN Returned(FALSE, c.mat, mse)
              ELSE
                LET m == IF Truthy(max_mse_dist) THEN get_mse_dist(mse, x_id, x_adv_id)
                         ELSE NotLookedUp(mse)
                IN IF m.kind = "KeyError"
                   THEN Raised("KeyError", "matrix row", c.mat, m.mat)
                   ELSE IF Truthy(max_mse_dist) /\ m.val > max_mse_dist.val
                        THEN Returned(FALSE, c.mat, m.mat)
                        ELSE CheckIndices(Tail(modified), x, x_adv, TRUE, c.mat, m.mat)

\* A candidate's attack_attrs: newly_modified_indices (0-based, ascending) or
\* no such key.
NoIndices == [has |-> FALSE, indices |-> <<>>]
Indices(q) == [has |-> TRUE, indices |-> q]

\* Mutant of check_constraint: a candidate without newly_modified_indices is
\* taken to have modified nothing.
check_constraint_lenient(x, x_adv, attrs, cos, mse) ==
    CheckIndices(attrs.indices, x, x_adv, FALSE, cos, mse)

\* _check_constraint, lines 101-138.
check_constraint(x, x_adv, attrs, cos, mse) ==
    IF ~attrs.has THEN Raised("KeyError", "newly_modified_indices", cos, mse)
    ELSE CheckIndices(attrs.indices, x, x_adv, FALSE, cos, mse)

NoCall == [fn |-> "none", x |-> <<>>, x_adv |-> <<>>, has_indices |-> FALSE,
           indices |-> <<>>, a |-> 0, b |-> 0, kind |-> "none", detail |-> "",
           bool_val |-> FALSE, num_val |-> 0, stored_before |-> FALSE,
           computed |-> FALSE]

\* A constraint object nobody has called, with no thresholds.
EmbeddingIdle ==
    /\ include_unknown_words = TRUE
    /\ cased = FALSE
    /\ min_cos_sim = None
    /\ max_mse_dist = None
    /\ cos_sim_mat = EmptyDict
    /\ mse_dist_mat = EmptyDict
    /\ wed_call = NoCall
    /\ unmarked = {}

(***************************************************************************)
(* lru.LRU: a bounded map with recency order.  The cache is a sequence of  *)
(* [key, val] records, the least recently used first.                      *)
(***************************************************************************)
LRUKeys(cache) == {cache[j].key : j \in DOMAIN cache}
LRUContains(cache, k) == k \in LRUKeys(cache)            \* `k in cache`: no promotion
LRUIndex(cache, k) == CHOOSE j \in DOMAIN cache : cache[j].key = k
LRUPeek(cache, k) == cache[LRUIndex(cache, k)].val
LRURemoveAt(cache, j) == SubSeq(cache, 1, j - 1) \o SubSeq(cache, j + 1, Len(cache))

\* cache[k]: the read moves the entry to the most recent end.
LRUGetItem(cache, k) ==
    Append(LRURemoveAt(cache, LRUIndex(cache, k)), cache[LRUIndex(cache, k)])

\* cache[k] = v: an existing key is overwritten and promoted; a new key is
\* added as the most recent and, over capacity, the least recent is dropped.
LRUSetItem(cache, size, k, v) ==
    IF LRUContains(cache, k)
    THEN Append(LRURemoveAt(cache, LRUIndex(cache, k)), [key |-> k, val |-> v])
    ELSE LET added == Append(cache, [key |-> k, val |-> v])
         IN IF Len(added) > size THEN Tail(added) ELSE added

(***************************************************************************)
(* filter_transformations, lines 149-158: split the candidates into cache  *)
(* hits (promoted) and uncached texts.                                     *)
(***************************************************************************)
\* Mutant of PopulateUncached: a miss is entered in the cache (as False)
\* during the scan, before the constraints have run.
RECURSIVE PopulateUncached_eager(_, _, _, _, _)
PopulateUncached_eager(texts, x, cache, size, uncached) ==
    IF texts = <<>> THEN [cache |-> cache, uncached |-> uncached]
    ELSE LET k == <<x, Head(texts)>>
         IN IF ~LRUContains(cache, k)
            THEN PopulateUncached_eager(Tail(texts), x,
                                        LRUSetItem(cache, size, k, FALSE), size,
                                        Append(uncached, Head(texts)))
            ELSE PopulateUncached_eager(Tail(texts), x,
                                        LRUSetItem(LRUGetItem(cache, k), size, k,
                                                   LRUPeek(cache, k)),
                                        size, uncached)

\* Mutant of PopulateUncached: a hit is left where it is, not promoted.
RECURSIVE PopulateUncached_nopromote(_, _, _, _, _)
PopulateUncached_nopromote(texts, x, cache, size, uncached) ==
    IF texts = <<>> THEN [cache |-> cache, uncached |-> uncached]
    ELSE IF ~LRUContains(cache, <<x, Head(texts)>>)
         THEN PopulateUncached_nopromote(Tail(texts), x, cache, size,
                                         Append(uncached, Head(texts)))
         ELSE PopulateUncached_nopromote(Tail(texts), x, cache, size, uncached)

RECURSIVE PopulateUncached(_, _, _, _, _)
PopulateUncached(texts, x, cache, size, uncached) ==
    IF texts = <<>> THEN [cache |-> cache, uncached |-> uncached]
    ELSE LET k == <<x, Head(texts)>>
         IN IF ~LRUContains(cache, k)
            THEN PopulateUncached(Tail(texts), x, cache, size,
                                  Append(uncached, Head(texts)))
            ELSE PopulateUncached(Tail(texts), x,
                                  LRUSetItem(LRUGetItem(cache, k), size, k,
                                             LRUPeek(cache, k)),
                                  size, uncached)

(***************************************************************************)
(* filter_transformations, lines 163-165: read every candidate's verdict   *)
(* from the cache.  A read of a missing key raises KeyError.               *)
(***************************************************************************)
RECURSIVE ReadVerdicts(_, _, _, _)
ReadVerdicts(texts, x, cache, acc) ==
    IF texts = <<>> THEN [cache |-> cache, texts |-> acc, raised |-> FALSE]
    ELSE LET k == <<x, Head(texts)>>
         IN IF ~LRUContains(cache, k)
            THEN [cache |-> cache, texts |-> <<>>, raised |-> TRUE]
            ELSE ReadVerdicts(Tail(texts), x, LRUGetItem(cache, k),
                              IF LRUPeek(cache, k) THEN Append(acc, Head(texts))
                              ELSE acc)

\* list.sort(key=lambda t: t.text): a stable sort by rendered text.
RECURSIVE InsertByText(_, _)
InsertByText(sorted, t) ==
    IF sorted = <<>> THEN <<t>>
    ELSE IF TextLess(t, Head(sorted)) THEN <<t>> \o sorted
    ELSE <<Head(sorted)>> \o InsertByText(Tail(sorted), t)

\* Mutant of SortByText: the sort of line 167 is left out.
SortByText_unsorted(texts) == texts

RECURSIVE SortByText(_)
SortByText(texts) ==
    IF texts = <<>> THEN <<>>
    ELSE InsertByText(SortByText(SubSeq(texts, 1, Len(texts) - 1)), texts[Len(texts)])

(***************************************************************************)
(* The filter's state machine.  A call runs from "idle" through            *)
(*   "constraints"    the loop of lines 123-128, one constraint per step   *)
(*   "default_false"  the loop of lines 130-131, one cache write per step  *)
(*   "set_true"       the loop of lines 133-134, one cache write per step  *)
(*   "uncached_done"  _filter_transformations_uncached has returned        *)
(* to "returned" (line 168) or "raised" (the KeyError of line 164).  A     *)
(* loop's exit test belongs to the step before it.                         *)
(***************************************************************************)
NoCallError == [kind |-> "none", detail |-> ""]

\* No call of the filter is under way.
CallIdle ==
    /\ pc = "idle"
    /\ transformed_texts = <<>>
    /\ current_text = <<>>
    /\ original_text = <<>>
    /\ uncached_texts = <<>>
    /\ filtered_texts = <<>>
    /\ c_idx = 1
    /\ w_idx = 1
    /\ result = <<>>
    /\ call_error = NoCallError
    /\ invocations = <<>>
    /\ repeat = FALSE
    /\ prev_result = <<>>
    /\ evicted = {}

\* The engine after a successful __init__ with these constraints.
Constructed(cs) ==
    /\ ctor_pc = "constructed"
    /\ init_args = [goal_function |-> "GoalFunction", constraints |-> cs,
                    transformation |-> "WordSwap", search_method |-> "SearchMethod",
                    constraint_cache_size |-> constraint_cache_size]
    /\ sm_compatible = TRUE
    /\ goal_function = "GoalFunction"
    /\ search_method = "SearchMethod"
    /\ transformation = "WordSwap"
    /\ is_black_box = TRUE
    /\ pre_transformation_constraints = <<>>
    /\ bound = {"get_transformations", "get_goal_results", "filter_transformations"}
    /\ compat_queries = <<"WordSwap">>
    /\ ctor_error = "none"

NoResult == [text |-> <<>>, label_names |-> "None", output |-> 0, succeeded |-> FALSE]
NoOutcome == [kind |-> "none"]
NoError == [kind |-> "none"]

\* No traversal of a dataset is under way.
DatasetIdle ==
    /\ ds_pc = "not_started"
    /\ dataset = <<>>
    /\ has_label_names = FALSE
    /\ caller_indices = [kind |-> "None", items |-> <<>>]
    /\ indices_arg = caller_indices
    /\ indices = [items |-> <<>>, alias |-> FALSE]
    /\ taken = 0
    /\ cur_index = 0
    /\ num_queries = 0
    /\ query_resets = 0
    /\ get_result_calls = 0
    /\ search_calls = 0
    /\ search_arg = NoResult
    /\ search_queries = 0
    /\ reported_output = 0
    /\ initial_result = NoResult
    /\ final_result = NoResult
    /\ outcome = NoOutcome
    /\ yielded = <<>>
    /\ ds_error = NoError

InitFilter ==
    /\ constraints \in ConstraintConfigs
    /\ constraint_cache_size \in 1..MaxCacheSize
    /\ constraints_cache = <<>>
    /\ CallIdle
    /\ Constructed(constraints)
    /\ DatasetIdle
    /\ EmbeddingIdle

\* Where control goes when the constraint loop is over (lines 129-135).
AfterConstraints(uncached) ==
    IF uncached # <<>> THEN "default_false" ELSE "uncached_done"

\* Mutant of LoopContinues: the emptiness test of lines 124-125 is left out.
LoopContinues_nobreak(c, filtered) == c <= Len(constraints)

\* Lines 123-125: the loop runs another iteration.
LoopContinues(c, filtered) == c <= Len(constraints) /\ filtered # <<>>

\* Lines 149-161: the scan of the candidates and the call of
\* _filter_transformations_uncached on the uncached ones.
BeginFilter(texts, x, orig, again) ==
    LET p == PopulateUncached(texts, x, constraints_cache, constraint_cache_size, <<>>)
    IN /\ transformed_texts' = texts
       /\ current_text' = x
       /\ original_text' = orig
       /\ constraints_cache' = p.cache
       /\ uncached_texts' = p.uncached
       /\ filtered_texts' = p.uncached
       /\ c_idx' = 1
       /\ w_idx' = 1
       /\ invocations' = <<>>
       /\ repeat' = again
       /\ prev_result' = IF again THEN result ELSE <<>>
       /\ result' = <<>>
       /\ call_error' = NoCallError
       /\ evicted' = LRUKeys(constraints_cache) \ LRUKeys(p.cache)
       /\ pc' = IF LoopContinues(1, p.uncached) THEN "constraints"
                ELSE AfterConstraints(p.uncached)
       /\ UNCHANGED <<constraints, constraint_cache_size, ctorVars, wedVars>>

\* get_transformations (lines 95-109): the transformation returns its
\* candidates in an order of its own, duplicates included, and they are
\* handed to filter_transformations.  The search method's direct call of
\* filter_transformations enters the same way.
GetTransformations ==
    /\ pc = "idle"
    /\ \E x \in CurrentTexts, orig \in OriginalTexts :
          \E texts \in SeqsUpTo(Transformation(x), MaxCands) :
             BeginFilter(texts, x, orig, FALSE)
    /\ UNCHANGED dataVars

\* filter_transformations called again with the arguments of the call that
\* has just ended.
FilterAgain ==
    /\ pc \in {"returned", "raised"}
    /\ ~repeat
    /\ BeginFilter(transformed_texts, current_text, original_text, TRUE)
    /\ UNCHANGED dataVars

\* The attack_attrs the transformation gives a candidate of current text x:
\* the indices of the words it swapped, or no newly_modified_indices at all.
CandidateAttrs(x, t) ==
    IF t \in unmarked THEN NoIndices
    ELSE Indices(SelectSeq([j \in 1..Len(x) |-> j - 1], LAMBDA i : x[i + 1] # t[i + 1]))

\* WordEmbeddingDistance.call_many: _check_constraint on each candidate in
\* turn; an error of one candidate ends the call.
RECURSIVE call_many_wed(_, _, _, _, _)
call_many_wed(texts, x, kept, cos, mse) ==
    IF texts = <<>>
    THEN [kind |-> "list", detail |-> "", kept |-> kept, cos |-> cos, mse |-> mse]
    ELSE LET r == check_constraint(x, Head(texts), CandidateAttrs(x, Head(texts)),
                                   cos, mse)
         IN IF r.kind # "bool"
            THEN [kind |-> r.kind, detail |-> r.detail, kept |-> <<>>,
                  cos |-> r.cos, mse |-> r.mse]
            ELSE call_many_wed(Tail(texts), x,
                               IF r.val THEN Append(kept, Head(texts)) ELSE kept,
                               r.cos, r.mse)

\* Lines 126-128: C.call_many(filtered_texts, current_text, original_text).
RunConstraint(C, texts, x, orig) ==
    IF C = "WordEmbeddingDistance"
    THEN call_many_wed(texts, x, <<>>, cos_sim_mat, mse_dist_mat)
    ELSE [kind |-> "list", detail |-> "", kept |-> call_many(C, texts, x, orig),
          cos |-> cos_sim_mat, mse |-> mse_dist_mat]

\* Lines 123-128: one iteration of the constraint loop.  An error of the
\* constraint leaves the loop and the two methods; no line catches it.
ApplyConstraint ==
    /\ pc = "constraints"
    /\ LET r == RunConstraint(constraints[c_idx], filtered_texts,
                              current_text, original_text)
       IN /\ invocations' = Append(invocations,
                                   [c |-> c_idx, texts |-> filtered_texts,
                                    kept |-> r.kept])
          /\ cos_sim_mat' = r.cos
          /\ mse_dist_mat' = r.mse
          /\ IF r.kind = "list"
             THEN /\ filtered_texts' = r.kept
                  /\ c_idx' = c_idx + 1
                  /\ pc' = IF LoopContinues(c_idx + 1, r.kept) THEN "constraints"
                           ELSE AfterConstraints(uncached_texts)
                  /\ call_error' = call_error
                  /\ uncached_texts' = uncached_texts
             ELSE /\ filtered_texts' = <<>>
                  /\ c_idx' = 1
                  /\ pc' = "raised"
                  /\ call_error' = [kind |-> r.kind, detail |-> r.detail]
                  /\ uncached_texts' = <<>>
    /\ UNCHANGED <<constraints, constraint_cache_size, constraints_cache,
                   transformed_texts, current_text, original_text,
                   w_idx, result, repeat, prev_result, evicted,
                   ctorVars, dataVars>>
    /\ UNCHANGED <<include_unknown_words, cased, min_cos_sim, max_mse_dist, wed_call,
                   unmarked>>

\* Lines 130-131: one write of False.
WriteFalse ==
    /\ pc = "default_false"
    /\ constraints_cache' = LRUSetItem(constraints_cache, constraint_cache_size,
                                       <<current_text, uncached_texts[w_idx]>>, FALSE)
    /\ IF w_idx < Len(uncached_texts)
       THEN /\ w_idx' = w_idx + 1
            /\ pc' = pc
       ELSE /\ w_idx' = 1
            /\ pc' = IF filtered_texts # <<>> THEN "set_true" ELSE "uncached_done"
    /\ evicted' = evicted \cup (LRUKeys(constraints_cache) \ LRUKeys(constraints_cache'))
    /\ UNCHANGED <<constraints, constraint_cache_size, transformed_texts,
                   current_text, original_text, uncached_texts, filtered_texts, c_idx,
                   result, call_error, invocations, repeat, prev_result,
                   ctorVars, dataVars, wedVars>>

\* Lines 133-134: one write of True.
WriteTrue ==
    /\ pc = "set_true"
    /\ constraints_cache' = LRUSetItem(constraints_cache, constraint_cache_size,
                                       <<current_text, filtered_texts[w_idx]>>, TRUE)
    /\ IF w_idx < Len(filtered_texts)
       THEN /\ w_idx' = w_idx + 1
            /\ pc' = pc
       ELSE /\ w_idx' = 1
            /\ pc' = "uncached_done"
    /\ evicted' = evicted \cup (LRUKeys(constraints_cache) \ LRUKeys(constraints_cache'))
    /\ UNCHANGED <<constraints, constraint_cache_size, transformed_texts,
                   current_text, original_text, uncached_texts, filtered_texts, c_idx,
                   result, call_error, invocations, repeat, prev_result,
                   ctorVars, dataVars, wedVars>>

\* Lines 163-168: read the verdicts, sort, return; a missing entry raises
\* KeyError.  The locals of the call end with it.
ReturnFiltered ==
    /\ pc = "uncached_done"
    /\ LET r == ReadVerdicts(transformed_texts, current_text, constraints_cache, <<>>)
       IN /\ constraints_cache' = r.cache
          /\ result' = SortByText(r.texts)
          /\ pc' = IF r.raised THEN "raised" ELSE "returned"
          /\ call_error' = IF r.raised
                           THEN [kind |-> "KeyError", detail |-> "constraints_cache"]
                           ELSE NoCallError
    /\ uncached_texts' = <<>>
    /\ filtered_texts' = <<>>
    /\ c_idx' = 1
    /\ w_idx' = 1
    /\ UNCHANGED <<constraints, constraint_cache_size, transformed_texts,
                   current_text, original_text, invocations, repeat, prev_result,
                   evicted, ctorVars, dataVars, wedVars>>

\* The caller takes the returned list (or the error) and goes on; the engine
\* keeps its cache.
CallerContinues ==
    /\ pc \in {"returned", "raised"}
    /\ pc' = "idle"
    /\ transformed_texts' = <<>>
    /\ current_text' = <<>>
    /\ original_text' = <<>>
    /\ result' = <<>>
    /\ call_error' = NoCallError
    /\ invocations' = <<>>
    /\ repeat' = FALSE
    /\ prev_result' = <<>>
    /\ evicted' = {}
    /\ UNCHANGED <<constraints, constraint_cache_size, constraints_cache,
                   uncached_texts, filtered_texts, c_idx, w_idx,
                   ctorVars, dataVars, wedVars>>

Next ==
    \/ GetTransformations
    \/ FilterAgain
    \/ ApplyConstraint
    \/ WriteFalse
    \/ WriteTrue
    \/ ReturnFiltered
    \/ CallerContinues

Spec == InitFilter /\ [][Next]_vars


(***************************************************************************)
(* Attack.__init__ (lines 33-79).  The components are None or an object;   *)
(* `not x` holds of None.  A transformation may declare is_black_box; a    *)
(* constraint is a PreTransformationConstraint or it is not.               *)
(***************************************************************************)
GoalFunctionArgs == {"None", "GoalFunction"}
SearchMethodArgs == {"None", "SearchMethod"}
TransformationArgs == {"None", "WordSwap", "GradientWordSwap"}
PreTransformationKinds == {"RepeatModification", "StopwordModification"}
AllConstraintKinds == ConstraintKinds \cup PreTransformationKinds

Not(x) == x = "None"

\* isinstance(constraint, PreTransformationConstraint), lines 65-68.
IsPreTransformationConstraint(C) == C \in PreTransformationKinds

\* getattr(transformation, "is_black_box", True), line 53.
GetIsBlackBox(t) == IF t = "GradientWordSwap" THEN FALSE ELSE TRUE

\* Lines 62-71: the constraints are split in two lists, each in the order
\* given.
RECURSIVE PartitionConstraints(_, _, _)
PartitionConstraints(cs, pre, post) ==
    IF cs = <<>> THEN [pre |-> pre, post |-> post]
    ELSE IF IsPreTransformationConstraint(Head(cs))
         THEN PartitionConstraints(Tail(cs), Append(pre, Head(cs)), post)
         ELSE PartitionConstraints(Tail(cs), pre, Append(post, Head(cs)))

NoArgs == [goal_function |-> "None", constraints |-> <<>>, transformation |-> "None",
           search_method |-> "None", constraint_cache_size |-> 0]

InitCtor ==
    /\ ctor_pc = "new"
    /\ init_args = NoArgs
    /\ sm_compatible = FALSE
    /\ goal_function = "unset"
    /\ search_method = "unset"
    /\ transformation = "unset"
    /\ is_black_box = TRUE
    /\ constraints = <<>>
    /\ pre_transformation_constraints = <<>>
    /\ constraint_cache_size = 0
    /\ constraints_cache = <<>>
    /\ bound = {}
    /\ compat_queries = <<>>
    /\ ctor_error = "none"
    /\ CallIdle
    /\ DatasetIdle
    /\ EmbeddingIdle

CtorFrame == UNCHANGED <<callVars, dataVars, wedVars>>

\* Attack(...) is called.
AttackInit ==
    /\ ctor_pc = "new"
    /\ \E gf \in GoalFunctionArgs, sm \in SearchMethodArgs, tr \in TransformationArgs,
          cs \in SeqsUpTo(AllConstraintKinds, MaxConstraints),
          size \in 1..MaxCacheSize, ok \in BOOLEAN :
          /\ init_args' = [goal_function |-> gf, constraints |-> cs,
                           transformation |-> tr, search_method |-> sm,
                           constraint_cache_size |-> size]
          /\ sm_compatible' = ok
    /\ ctor_pc' = "goal_function"
    /\ UNCHANGED <<goal_function, search_method, transformation, is_black_box,
                   pre_transformation_constraints, bound, compat_queries, ctor_error,
                   engineVars>>
    /\ CtorFrame

\* Lines 42-46.
SetGoalFunction ==
    /\ ctor_pc = "goal_function"
    /\ goal_function' = init_args.goal_function
    /\ IF Not(init_args.goal_function)
       THEN ctor_pc' = "raised" /\ ctor_error' = "NameError"
       ELSE ctor_pc' = "search_method" /\ ctor_error' = ctor_error
    /\ UNCHANGED <<init_args, sm_compatible, search_method, transformation,
                   is_black_box, pre_transformation_constraints, bound,
                   compat_queries, engineVars>>
    /\ CtorFrame

\* Lines 47-49.
SetSearchMethod ==
    /\ ctor_pc = "search_method"
    /\ search_method' = init_args.search_method
    /\ IF Not(init_args.search_method)
       THEN ctor_pc' = "raised" /\ ctor_error' = "NameError"
       ELSE ctor_pc' = "transformation" /\ ctor_error' = ctor_error
    /\ UNCHANGED <<init_args, sm_compatible, goal_function, transformation,
                   is_black_box, pre_transformation_constraints, bound,
                   compat_queries, engineVars>>
    /\ CtorFrame

\* Mutant of SetTransformation: the test of lines 51-52 is left out.
SetTransformation_unchecked ==
    /\ ctor_pc = "transformation"
    /\ transformation' = init_args.transformation
    /\ is_black_box' = GetIsBlackBox(init_args.transformation)
    /\ ctor_pc' = "compatibility"
    /\ UNCHANGED <<init_args, sm_compatible, goal_function, search_method,
                   pre_transformation_constraints, bound, compat_queries, ctor_error,
                   engineVars>>
    /\ CtorFrame

\* Lines 50-53.
SetTransformation ==
    /\ ctor_pc = "transformation"
    /\ transformation' = init_args.transformation
    /\ IF Not(init_args.transformation)
       THEN /\ ctor_pc' = "raised"
            /\ ctor_error' = "NameError"
            /\ is_black_box' = is_black_box
       ELSE /\ ctor_pc' = "compatibility"
            /\ ctor_error' = ctor_error
            /\ is_black_box' = GetIsBlackBox(init_args.transformation)
    /\ UNCHANGED <<init_args, sm_compatible, goal_function, search_method,
                   pre_transformation_constraints, bound, compat_queries, engineVars>>
    /\ CtorFrame

\* Lines 55-60: the capability query on the search method.
CheckCompatibility ==
    /\ ctor_pc = "compatibility"
    /\ compat_queries' = Append(compat_queries, transformation)
    /\ IF ~sm_compatible
       THEN ctor_pc' = "raised" /\ ctor_error' = "ValueError"
       ELSE ctor_pc' = "constraints" /\ ctor_error' = ctor_error
    /\ UNCHANGED <<init_args, sm_compatible, goal_function, search_method,
                   transformation, is_black_box, pre_transformation_constraints,
                   bound, engineVars>>
    /\ CtorFrame

\* Lines 62-74: the two constraint lists and the cache.
SetConstraintsAndCache ==
    /\ ctor_pc = "constraints"
    /\ LET parts == PartitionConstraints(init_args.constraints, <<>>, <<>>)
       IN /\ constraints' = parts.post
          /\ pre_transformation_constraints' = parts.pre
    /\ constraint_cache_size' = init_args.constraint_cache_size
    /\ constraints_cache' = <<>>
    /\ ctor_pc' = "bind"
    /\ UNCHANGED <<init_args, sm_compatible, goal_function, search_method,
                   transformation, is_black_box, bound, compat_queries, ctor_error>>
    /\ CtorFrame

\* Lines 77-79: the three callbacks are bound onto the search method.
BindCallbacks ==
    /\ ctor_pc = "bind"
    /\ bound' = {"get_transformations", "get_goal_results", "filter_transformations"}
    /\ ctor_pc' = "constructed"
    /\ UNCHANGED <<init_args, sm_compatible, goal_function, search_method,
                   transformation, is_black_box, pre_transformation_constraints,
                   compat_queries, ctor_error, engineVars>>
    /\ CtorFrame

NextInit ==
    \/ AttackInit
    \/ SetGoalFunction
    \/ SetSearchMethod
    \/ SetTransformation
    \/ CheckCompatibility
    \/ SetConstraintsAndCache
    \/ BindCallbacks

SpecInit == InitCtor /\ [][NextInit]_vars

(***************************************************************************)
(* attack_dataset (lines 236-253) over _get_examples_from_dataset (lines   *)
(* 191-234) and attack_one (lines 170-189).  Both generators are lazy: a   *)
(* step of the consumer runs them to the next yield.  The goal function    *)
(* and the search method are stubs that answer as any model could.         *)
(***************************************************************************)
Labels == {0, 1}

\* The text of the example at (0-based) index n.
ExampleText(n) == <<1 + (n % 2), 1 + ((n \div 2) % 2)>>

Datasets ==
    UNION {{[j \in 1..n |-> [text |-> ExampleText(j - 1), ground_truth_output |-> g[j]]] :
              g \in [1..n -> Labels]} : n \in 0..MaxDataset}

\* What a caller passes as indices: nothing, or a list or a deque of
\* non-negative indices, some of them possibly beyond the dataset.
IndexArgs ==
    {[kind |-> "None", items |-> <<>>]} \cup
    {[kind |-> k, items |-> q] :
        k \in {"list", "deque"}, q \in SeqsUpTo(0..MaxDataset, MaxIndices)}

\* range(len(dataset)) as a sequence.
RangeLen(d) == [j \in 1..Len(d) |-> j - 1]

\* dataset[i] raises IndexError outside 0..len-1.
InBounds(d, i) == i \in 0..(Len(d) - 1)

\* Lines 202-204: the queue the traversal pops from.  A sequence that is
\* None or empty is replaced by all indices; a deque is used as it is, any
\* other sequence is copied into a deque.
IndexQueue(arg, d) ==
    IF arg.kind = "None" \/ arg.items = <<>>
    THEN [items |-> RangeLen(d), alias |-> FALSE]
    ELSE [items |-> arg.items, alias |-> (arg.kind = "deque")]

InitDataset ==
    /\ constraints = <<>>
    /\ constraint_cache_size = MaxCacheSize
    /\ constraints_cache = <<>>
    /\ CallIdle
    /\ Constructed(<<>>)
    /\ ds_pc = "not_started"
    /\ dataset \in Datasets
    /\ has_label_names \in BOOLEAN
    /\ caller_indices \in IndexArgs
    /\ indices_arg = caller_indices
    /\ indices = [items |-> <<>>, alias |-> FALSE]
    /\ taken = 0
    /\ cur_index = 0
    /\ num_queries = 0
    /\ query_resets = 0
    /\ get_result_calls = 0
    /\ search_calls = 0
    /\ search_arg = NoResult
    /\ search_queries = 0
    /\ reported_output = 0
    /\ initial_result = NoResult
    /\ final_result = NoResult
    /\ outcome = NoOutcome
    /\ yielded = <<>>
    /\ ds_error = NoError
    /\ EmbeddingIdle

DataFrame == UNCHANGED <<engineVars, callVars, ctorVars, wedVars>>

\* attack_dataset(dataset, indices) is called and first resumed: lines 246
\* and 202-207.
StartTraversal ==
    /\ ds_pc = "not_started"
    /\ indices' = IndexQueue(caller_indices, dataset)
    /\ ds_pc' = IF IndexQueue(caller_indices, dataset).items = <<>>
               THEN "exhausted" ELSE "loop"
    /\ UNCHANGED <<dataset, has_label_names, indices_arg, query_resets, caller_indices, taken, cur_index,
                   num_queries, get_result_calls, search_calls, search_arg,
                   search_queries, reported_output, initial_result, final_result,
                   outcome, yielded, ds_error>>
    /\ DataFrame

\* Mutant of TakeIndex: an index out of bounds is skipped silently.
TakeIndex_skipping ==
    /\ ds_pc \in {"loop", "yielded"}
    /\ indices.items # <<>>
    /\ LET i == Head(indices.items)
       IN /\ cur_index' = i
          /\ indices' = [indices EXCEPT !.items = Tail(indices.items)]
          /\ caller_indices' = IF indices.alias
                               THEN [caller_indices EXCEPT !.items = Tail(indices.items)]
                               ELSE caller_indices
          /\ taken' = taken + 1
          /\ ds_pc' = IF InBounds(dataset, i) THEN "example" ELSE "loop"
          /\ ds_error' = ds_error
    /\ get_result_calls' = 0
    /\ search_calls' = 0
    /\ search_queries' = 0
    /\ search_arg' = NoResult
    /\ initial_result' = NoResult
    /\ final_result' = NoResult
    /\ outcome' = NoOutcome
    /\ query_resets' = 0
    /\ UNCHANGED <<dataset, has_label_names, indices_arg, num_queries, reported_output,
                   yielded>>
    /\ DataFrame

\* Mutant of TakeIndex: the error path resets the engine's cache.
TakeIndex_resetting ==
    /\ ds_pc \in {"loop", "yielded"}
    /\ indices.items # <<>>
    /\ LET i == Head(indices.items)
       IN /\ cur_index' = i
          /\ indices' = [indices EXCEPT !.items = Tail(indices.items)]
          /\ caller_indices' = IF indices.alias
                               THEN [caller_indices EXCEPT !.items = Tail(indices.items)]
                               ELSE caller_indices
          /\ taken' = taken + 1
          /\ IF InBounds(dataset, i)
             THEN /\ ds_pc' = "example"
                  /\ ds_error' = ds_error
                  /\ constraints_cache' = constraints_cache
             ELSE /\ ds_pc' = "raised"
                  /\ ds_error' = [kind |-> "IndexError", size |-> Len(dataset),
                                  index |-> i]
                  /\ constraints_cache' = <<>>
    /\ get_result_calls' = 0
    /\ search_calls' = 0
    /\ search_queries' = 0
    /\ search_arg' = NoResult
    /\ initial_result' = NoResult
    /\ final_result' = NoResult
    /\ outcome' = NoOutcome
    /\ query_resets' = 0
    /\ UNCHANGED <<dataset, has_label_names, indices_arg, num_queries, reported_output,
                   yielded>>
    /\ UNCHANGED <<constraints, constraint_cache_size, callVars, ctorVars, wedVars>>

\* Lines 209-212 and 231-234: the consumer asks for the next outcome, the
\* loop pops the next index and reads the example; out of bounds the
\* IndexError is raised again with the size and the index in its message.
TakeIndex ==
    /\ ds_pc \in {"loop", "yielded"}
    /\ indices.items # <<>>
    /\ LET i == Head(indices.items)
       IN /\ cur_index' = i
          /\ indices' = [indices EXCEPT !.items = Tail(indices.items)]
          /\ caller_indices' = IF indices.alias
                               THEN [caller_indices EXCEPT !.items = Tail(indices.items)]
                               ELSE caller_indices
          /\ taken' = taken + 1
          /\ IF InBounds(dataset, i)
             THEN /\ ds_pc' = "example"
                  /\ ds_error' = ds_error
             ELSE /\ ds_pc' = "raised"
                  /\ ds_error' = [kind |-> "IndexError", size |-> Len(dataset),
                                  index |-> i]
    /\ get_result_calls' = 0
    /\ search_calls' = 0
    /\ search_queries' = 0
    /\ search_arg' = NoResult
    /\ initial_result' = NoResult
    /\ final_result' = NoResult
    /\ outcome' = NoOutcome
    /\ query_resets' = 0
    /\ UNCHANGED <<dataset, has_label_names, indices_arg, num_queries, reported_output,
                   yielded>>
    /\ DataFrame

\* Mutant of RecordedOutput: line 228 is left out.
RecordedOutput_reported(succeeded, reported, ground_truth_output) == reported

\* What the result's output becomes by lines 225-228.
RecordedOutput(succeeded, reported, ground_truth_output) ==
    IF succeeded THEN ground_truth_output ELSE reported

\* Mutant of ResetQueries: line 221 is left out.
ResetQueries_kept(n) == n

\* Line 221: self.goal_function.num_queries = 0.
ResetQueries(n) == 0

\* get_result evaluates one text: the goal function counts one query.
GetResultQueries == 1

\* Lines 213-229: the text is built, the query counter reset, the initial
\* result evaluated (one query) and yielded to attack_dataset.
EvaluateInitial ==
    /\ ds_pc = "example"
    /\ \E out \in Labels, succ \in BOOLEAN :
          /\ reported_output' = out
          /\ initial_result' =
                [text |-> dataset[cur_index + 1].text,
                 label_names |-> IF has_label_names THEN "label_names" ELSE "None",
                 output |-> RecordedOutput(succ, out,
                                           dataset[cur_index + 1].ground_truth_output),
                 succeeded |-> succ]
    /\ num_queries' = ResetQueries(num_queries) + GetResultQueries
    /\ query_resets' = query_resets + 1
    /\ get_result_calls' = get_result_calls + 1
    /\ ds_pc' = "evaluated"
    /\ UNCHANGED <<dataset, has_label_names, indices_arg, caller_indices, indices, taken,
                   cur_index, search_calls, search_arg, search_queries, final_result,
                   outcome, yielded, ds_error>>
    /\ DataFrame

\* Lines 249-250.
YieldSkipped ==
    /\ ds_pc = "evaluated"
    /\ initial_result.succeeded
    /\ outcome' = [kind |-> "Skipped", result |-> initial_result]
    /\ yielded' = Append(yielded, cur_index)
    /\ ds_pc' = "yielded"
    /\ UNCHANGED <<dataset, has_label_names, indices_arg, query_resets, caller_indices,
                   indices, taken,
                   cur_index, num_queries, get_result_calls, search_calls, search_arg,
                   search_queries, reported_output, initial_result, final_result,
                   ds_error>>
    /\ DataFrame

\* The search method's use of the engine: a search that queries the goal
\* function has asked get_transformations for candidates of the example's
\* text, and the verdict of the candidate it settles on is in the cache.
SearchCache(cache, size, q, text, found) ==
    IF q = 0 THEN cache ELSE LRUSetItem(cache, size, <<text, found>>, TRUE)

\* Lines 251-252 and 181: attack_one calls the search method, which makes
\* its queries and returns a final result.
AttackOneSearch ==
    /\ ds_pc = "evaluated"
    /\ ~initial_result.succeeded
    /\ search_calls' = search_calls + 1
    /\ search_arg' = initial_result
    /\ \E q \in 0..MaxSearchQueries, out \in Labels, succ \in BOOLEAN :
          /\ search_queries' = q
          /\ num_queries' = num_queries + q
          /\ final_result' = [text |-> IF q = 0 THEN initial_result.text
                                       ELSE ExampleText(cur_index + 1),
                              label_names |-> initial_result.label_names,
                              output |-> out, succeeded |-> succ]
          /\ constraints_cache' = SearchCache(constraints_cache, constraint_cache_size,
                                              q, initial_result.text,
                                              ExampleText(cur_index + 1))
    /\ ds_pc' = "searched"
    /\ UNCHANGED <<dataset, has_label_names, indices_arg, query_resets, caller_indices,
                   indices, taken, cur_index, get_result_calls, reported_output,
                   initial_result, outcome, yielded, ds_error>>
    /\ UNCHANGED <<constraints, constraint_cache_size, callVars, ctorVars, wedVars>>

\* Mutant of AttackOneResult: the outcome's kind follows the initial result.
AttackOneResult_initial(initial, final, queries) ==
    [kind |-> IF initial.succeeded THEN "Successful" ELSE "Failed",
     initial |-> initial, final |-> final, num_queries |-> queries]

\* Lines 182-189: the outcome attack_one builds.
AttackOneResult(initial, final, queries) ==
    [kind |-> IF final.succeeded THEN "Successful" ELSE "Failed",
     initial |-> initial, final |-> final, num_queries |-> queries]

\* Lines 182-189 and 253: attack_one returns and its outcome is yielded.
AttackOneReturns ==
    /\ ds_pc = "searched"
    /\ outcome' = AttackOneResult(initial_result, final_result, num_queries)
    /\ yielded' = Append(yielded, cur_index)
    /\ ds_pc' = "yielded"
    /\ UNCHANGED <<dataset, has_label_names, indices_arg, query_resets, caller_indices,
                   indices, taken,
                   cur_index, num_queries, get_result_calls, search_calls, search_arg,
                   search_queries, reported_output, initial_result, final_result,
                   ds_error>>
    /\ DataFrame

\* Line 209: the consumer asks again and the queue is empty.
Exhausted ==
    /\ ds_pc = "yielded"
    /\ indices.items = <<>>
    /\ ds_pc' = "exhausted"
    /\ outcome' = NoOutcome
    /\ UNCHANGED <<dataset, has_label_names, indices_arg, query_resets, caller_indices,
                   indices, taken,
                   cur_index, num_queries, get_result_calls, search_calls, search_arg,
                   search_queries, reported_output, initial_result, final_result,
                   yielded, ds_error>>
    /\ DataFrame

NextDataset ==
    \/ StartTraversal
    \/ TakeIndex
    \/ EvaluateInitial
    \/ YieldSkipped
    \/ AttackOneSearch
    \/ AttackOneReturns
    \/ Exhausted

SpecDataset == InitDataset /\ [][NextDataset]_vars

(***************************************************************************)
(* The traversal with a search method that uses the engine: attack_one     *)
(* (line 181) calls the search method, which asks get_transformations      *)
(* (lines 95-109) for candidates of the example's text; the call runs      *)
(* through the filter, whose constraints include WordEmbeddingDistance.    *)
(* Nothing between _check_constraint and the consumer of attack_dataset    *)
(* catches an error: lines 123-128, 159-161, 107-109, 181 and 252 are      *)
(* outside any try, and the try of lines 211-230 belongs to the other      *)
(* generator, which is suspended at its yield.                             *)
(***************************************************************************)
\* The candidate lists the transformation hands back: two distinct texts.
SearchCandidateLists(x) ==
    {p \in Transformation(x) \X Transformation(x) : p[1] # p[2]}

SearchConstraintConfigs == {<<"WordEmbeddingDistance">>,
                            <<"DiffersFromCurrent", "WordEmbeddingDistance">>}

UnmarkedChoices == {{}, {<<2, 1>>}, {<<1, 2>>, <<2, 2>>}}

InitSearch ==
    /\ constraints \in SearchConstraintConfigs
    /\ constraint_cache_size \in 1..MaxCacheSize
    /\ constraints_cache = <<>>
    /\ CallIdle
    /\ Constructed(constraints)
    /\ ds_pc = "not_started"
    /\ dataset \in {d \in Datasets : \A j \in DOMAIN d : d[j].ground_truth_output = 0}
    /\ has_label_names = FALSE
    /\ caller_indices = [kind |-> "None", items |-> <<>>]
    /\ indices_arg = caller_indices
    /\ indices = [items |-> <<>>, alias |-> FALSE]
    /\ taken = 0
    /\ cur_index = 0
    /\ num_queries = 0
    /\ query_resets = 0
    /\ get_result_calls = 0
    /\ search_calls = 0
    /\ search_arg = NoResult
    /\ search_queries = 0
    /\ reported_output = 0
    /\ initial_result = NoResult
    /\ final_result = NoResult
    /\ outcome = NoOutcome
    /\ yielded = <<>>
    /\ ds_error = NoError
    /\ include_unknown_words = TRUE
    /\ cased = FALSE
    /\ min_cos_sim = Some(50)
    /\ max_mse_dist = None
    /\ cos_sim_mat = PrecomputedMatrix("cos", {<<0, 1>>, <<0, 2>>, <<1, 2>>})
    /\ mse_dist_mat = EmptyDict
    /\ wed_call = NoCall
    /\ unmarked \in UnmarkedChoices

\* Lines 252, 181 and 95-109: attack_one calls the search method, which
\* calls get_transformations on the example's text.
SearchGetsTransformations ==
    /\ ds_pc = "evaluated"
    /\ ~initial_result.succeeded
    /\ pc = "idle"
    /\ search_calls' = search_calls + 1
    /\ search_arg' = initial_result
    /\ ds_pc' = "searching"
    /\ \E texts \in SearchCandidateLists(initial_result.text) :
          BeginFilter(texts, initial_result.text, initial_result.text, FALSE)
    /\ UNCHANGED <<dataset, has_label_names, indices_arg, query_resets, caller_indices,
                   indices, taken, cur_index, num_queries, get_result_calls,
                   search_queries, reported_output, initial_result, final_result,
                   outcome, yielded, ds_error>>

\* get_transformations has returned: the search method queries the goal
\* function about the first candidate, if there is one, and returns.
SearchReturns ==
    /\ ds_pc = "searching"
    /\ pc = "returned"
    /\ \E succ \in BOOLEAN :
          final_result' =
             IF result = <<>> THEN [initial_result EXCEPT !.succeeded = FALSE]
             ELSE [text |-> result[1], label_names |-> initial_result.label_names,
                   output |-> IF succ THEN 1 - initial_result.output
                              ELSE initial_result.output,
                   succeeded |-> succ]
    /\ search_queries' = IF result = <<>> THEN 0 ELSE 1
    /\ num_queries' = num_queries + (IF result = <<>> THEN 0 ELSE 1)
    /\ ds_pc' = "searched"
    /\ pc' = "idle"
    /\ transformed_texts' = <<>>
    /\ current_text' = <<>>
    /\ original_text' = <<>>
    /\ result' = <<>>
    /\ invocations' = <<>>
    /\ evicted' = {}
    /\ UNCHANGED <<uncached_texts, filtered_texts, c_idx, w_idx, call_error, repeat,
                   prev_result>>
    /\ UNCHANGED <<dataset, has_label_names, indices_arg, query_resets, caller_indices,
                   indices, taken, cur_index, get_result_calls, search_calls, search_arg,
                   reported_output, initial_result, outcome, yielded, ds_error>>
    /\ UNCHANGED <<engineVars, ctorVars, wedVars>>

\* get_transformations has raised: the error leaves the search method,
\* attack_one and attack_dataset and reaches the consumer.
SearchRaises ==
    /\ ds_pc = "searching"
    /\ pc = "raised"
    /\ ds_pc' = "raised"
    /\ ds_error' = [kind |-> call_error.kind, detail |-> call_error.detail]
    /\ UNCHANGED <<dataset, has_label_names, indices_arg, query_resets, caller_indices,
                   indices, taken, cur_index, num_queries, get_result_calls,
                   search_calls, search_arg, search_queries, reported_output,
                   initial_result, final_result, outcome, yielded>>
    /\ UNCHANGED <<engineVars, callVars, ctorVars, wedVars>>

NextSearch ==
    \/ StartTraversal
    \/ TakeIndex
    \/ EvaluateInitial
    \/ YieldSkipped
    \/ SearchGetsTransformations
    \/ ApplyConstraint
    \/ WriteFalse
    \/ WriteTrue
    \/ ReturnFiltered
    \/ SearchReturns
    \/ SearchRaises
    \/ AttackOneReturns
    \/ Exhausted

SpecSearch == InitSearch /\ [][NextSearch]_vars

(***************************************************************************)
(* The constraint on its own: __init__ (lines 26-67) with any thresholds   *)
(* and matrices, then calls of _check_constraint, get_cos_sim and          *)
(* get_mse_dist with any arguments.                                        *)
(***************************************************************************)
CosThresholds == {None, Some(50)}
MseThresholds == {None, Some(20)}
\* The current text "Good fine" and candidates that leave it as it is,
\* swap its first word (for a close word, a distant word, a word outside
\* the vocabulary), its second word, or both.
WEDCurrentTexts == {<<4, 2>>}
WEDCandidateTexts == {<<4, 2>>, <<2, 2>>, <<3, 2>>, <<5, 2>>, <<4, 3>>, <<2, 1>>}
WEDAttrs == {NoIndices, Indices(<<>>), Indices(<<0>>), Indices(<<1>>), Indices(<<0, 1>>)}

InitEmbedding ==
    /\ constraints = <<"WordEmbeddingDistance">>
    /\ constraint_cache_size = MaxCacheSize
    /\ constraints_cache = <<>>
    /\ CallIdle
    /\ Constructed(constraints)
    /\ DatasetIdle
    /\ include_unknown_words \in BOOLEAN
    /\ cased \in BOOLEAN
    /\ min_cos_sim \in CosThresholds
    /\ max_mse_dist \in MseThresholds
    /\ cos_sim_mat \in InitialMatrices(min_cos_sim, "cos")
    /\ mse_dist_mat \in InitialMatrices(max_mse_dist, "mse")
    /\ wed_call = NoCall
    /\ unmarked = {}

EmbeddingFrame == UNCHANGED <<include_unknown_words, cased, min_cos_sim, max_mse_dist,
                              unmarked, engineVars, callVars, ctorVars, dataVars>>

Stored(mat, a, b) == Min(a, b) \in DOMAIN mat /\ Max(a, b) \in DOMAIN mat[Min(a, b)]

\* _check_constraint(x, x_adv) is called.
CheckConstraintCall ==
    /\ \E x \in WEDCurrentTexts, x_adv \in WEDCandidateTexts, attrs \in WEDAttrs :
          LET r == check_constraint(x, x_adv, attrs, cos_sim_mat, mse_dist_mat)
          IN /\ wed_call' = [NoCall EXCEPT !.fn = "_check_constraint", !.x = x,
                                           !.x_adv = x_adv, !.has_indices = attrs.has,
                                           !.indices = attrs.indices, !.kind = r.kind,
                                           !.detail = r.detail, !.bool_val = r.val]
             /\ cos_sim_mat' = r.cos
             /\ mse_dist_mat' = r.mse
    /\ EmbeddingFrame

\* get_cos_sim(a, b) is called with two word ids.
GetCosSimCall ==
    /\ \E a \in WordIds, b \in WordIds :
          LET r == get_cos_sim(cos_sim_mat, a, b)
          IN /\ wed_call' = [NoCall EXCEPT !.fn = "get_cos_sim", !.a = a, !.b = b,
                                           !.kind = r.kind, !.num_val = r.val,
                                           !.stored_before = Stored(cos_sim_mat, a, b),
                                           !.computed = r.computed]
             /\ cos_sim_mat' = r.mat
    /\ mse_dist_mat' = mse_dist_mat
    /\ EmbeddingFrame

\* get_mse_dist(a, b) is called with two word ids.
GetMseDistCall ==
    /\ \E a \in WordIds, b \in WordIds :
          LET r == get_mse_dist(mse_dist_mat, a, b)
          IN /\ wed_call' = [NoCall EXCEPT !.fn = "get_mse_dist", !.a = a, !.b = b,
                                           !.kind = r.kind, !.num_val = r.val,
                                           !.stored_before = Stored(mse_dist_mat, a, b),
                                           !.computed = r.computed]
             /\ mse_dist_mat' = r.mat
    /\ cos_sim_mat' = cos_sim_mat
    /\ EmbeddingFrame

NextEmbedding ==
    \/ CheckConstraintCall
    \/ GetCosSimCall
    \/ GetMseDistCall

SpecEmbedding == InitEmbedding /\ [][NextEmbedding]_vars

(***************************************************************************)
(* Properties of the filter, checked under Spec.                           *)
(***************************************************************************)
InCall == pc \in {"constraints", "default_false", "set_true", "uncached_done"}

\* Every configured constraint accepts the candidate for these arguments.
AcceptsAll(x, t, orig) ==
    \A j \in DOMAIN constraints : CheckConstraint(constraints[j], x, t, orig)

Key(t) == <<current_text, t>>

\* C1: whatever the cache held, the list filter_transformations returns
\* holds only candidates of its input, and holds a candidate exactly when
\* every constraint accepts (current_text, candidate, original_text) of this
\* call.
C1_OutputIsWhatConstraintsAccept ==
    pc = "returned" =>
        /\ Range(result) \subseteq Range(transformed_texts)
        /\ \A t \in Range(transformed_texts) :
              t \in Range(result) <=> AcceptsAll(current_text, t, original_text)

\* C2: a call repeated with identical arguments finds every pair in the
\* cache, invokes no constraint, and returns the list the first call
\* returned, in the same order.
C2_RepeatedCallHitsCache ==
    repeat =>
        /\ invocations = <<>>
        /\ (InCall => uncached_texts = <<>>)
        /\ pc # "raised"
        /\ (pc = "returned" => result = prev_result)

\* C3 (as claimed): the returned list is strictly increasing by rendered
\* text.
C3_StrictlySorted ==
    pc = "returned" =>
        \A j \in 1..(Len(result) - 1) : TextLess(result[j], result[j + 1])

\* C3 (amended): the returned list is non-decreasing by rendered text;
\* content-equal candidates the transformation produced twice stay in the
\* list, side by side.
C3_SortedByText ==
    pc = "returned" =>
        \A j \in 1..(Len(result) - 1) : ~TextLess(result[j + 1], result[j])

\* C3 witness: two distinct candidates came in descending order and were
\* returned in ascending order.
C3_Witness ==
    /\ pc = "returned"
    /\ Len(transformed_texts) = 2
    /\ TextLess(transformed_texts[2], transformed_texts[1])
    /\ result = <<transformed_texts[2], transformed_texts[1]>>

\* C4: the constraints are invoked in configured order, each on what the
\* one before returned (the first on the uncached texts); once one returns
\* nothing the later ones are not invoked; none is invoked on an empty list,
\* also not when every candidate was a cache hit.
C4_PipelineShortCircuit ==
    /\ \A j \in DOMAIN invocations :
          /\ invocations[j].c = j
          /\ invocations[j].texts # <<>>
          /\ (j > 1 => invocations[j].texts = invocations[j - 1].kept)
          /\ (invocations[j].kept = <<>> => Len(invocations) = j)
    /\ (InCall /\ invocations # <<>> => invocations[1].texts = uncached_texts)
    /\ (InCall /\ uncached_texts = <<>> => invocations = <<>>)
    /\ (pc \in {"default_false", "set_true", "uncached_done"} /\ uncached_texts # <<>> =>
          \/ Len(invocations) = Len(constraints)
          \/ invocations[Len(invocations)].kept = <<>>)

\* C4 witness: the first of two constraints rejected every candidate and
\* the second was never invoked.
C4_Witness ==
    /\ pc = "uncached_done"
    /\ Len(constraints) = 2
    /\ Len(invocations) = 1
    /\ invocations[1].kept = <<>>

\* C8, first and third part: an entry enters the cache only in the write
\* loops, after the constraint loop has run over its pair in this call; the
\* constraints run only over pairs the cache does not hold.
C8_StoredAfterFiltering ==
    /\ \A k \in LRUKeys(constraints_cache') \ LRUKeys(constraints_cache) :
          /\ pc \in {"default_false", "set_true"}
          /\ \E t \in Range(uncached_texts) : k = Key(t)
    /\ (pc' = "constraints" =>
          \A t \in Range(uncached_texts') :
             ~LRUContains(constraints_cache', <<current_text', t>>))

\* C8 (as claimed): in every step, the writes one by one included, an entry
\* that stays in the cache keeps its value.
C8_ValueNeverChanges ==
    [][/\ C8_StoredAfterFiltering
       /\ \A k \in LRUKeys(constraints_cache) \cap LRUKeys(constraints_cache') :
             LRUPeek(constraints_cache', k) = LRUPeek(constraints_cache, k)]_vars

\* C8 (amended): an entry that stays in the cache keeps its value, except
\* that the call that stored it first writes false for every uncached
\* candidate and then overwrites the survivors' entries with true.
C8_ValueChangesOnlyInWriteTrue ==
    [][/\ C8_StoredAfterFiltering
       /\ \A k \in LRUKeys(constraints_cache) \cap LRUKeys(constraints_cache') :
             LRUPeek(constraints_cache', k) # LRUPeek(constraints_cache, k) =>
                /\ pc = "set_true"
                /\ k = Key(filtered_texts[w_idx])
                /\ LRUPeek(constraints_cache, k) = FALSE
                /\ LRUPeek(constraints_cache', k) = TRUE]_vars

\* C8 witness: a survivor's entry, written false, has been overwritten with
\* true while the write loop is still running.
C8_Witness ==
    /\ pc = "set_true"
    /\ w_idx = 2
    /\ LRUContains(constraints_cache, Key(filtered_texts[1]))
    /\ LRUPeek(constraints_cache, Key(filtered_texts[1])) = TRUE

\* C10: when _filter_transformations_uncached has returned, the cache maps
\* every candidate it was given to its verdict: true if it survived the
\* whole pipeline, false otherwise.
C10_EveryCandidateRecorded ==
    pc = "uncached_done" =>
        \A t \in Range(uncached_texts) :
           /\ LRUContains(constraints_cache, Key(t))
           /\ LRUPeek(constraints_cache, Key(t)) = (t \in Range(filtered_texts))

\* C10, what the code does keep: an entry that is still in the cache holds
\* the candidate's verdict, and entries go missing only when the call was
\* given more distinct candidates than constraint_cache_size.
C10_RecordedUnlessEvicted ==
    pc = "uncached_done" =>
        /\ \A t \in Range(uncached_texts) :
              LRUContains(constraints_cache, Key(t)) =>
                 LRUPeek(constraints_cache, Key(t)) = (t \in Range(filtered_texts))
        /\ (Cardinality(Range(uncached_texts)) <= constraint_cache_size =>
              \A t \in Range(uncached_texts) : LRUContains(constraints_cache, Key(t)))

\* The pairs of the call under way that the scan found in the cache.
HitsOfCall ==
    {Key(t) : t \in Range(transformed_texts) \ Range(uncached_texts)}

\* The pairs the call under way writes (lines 130-134).
WrittenByCall == {Key(t) : t \in Range(uncached_texts)}

\* C11: the cache never holds more than constraint_cache_size entries; the
\* scan of a call drops nothing and leaves every pair it hit more recent
\* than every pair it did not hit; a write drops only the least recent
\* entry; so a pair hit in the call is dropped only when every entry left
\* has been read or written since that hit.
C11_BoundedLRU ==
    [][/\ Len(constraints_cache') <= constraint_cache_size
       /\ (pc \notin {"constraints", "default_false", "set_true", "uncached_done"}
             /\ pc' \in {"constraints", "default_false", "set_true", "uncached_done"} =>
             LET hits == {<<current_text', t>> :
                            t \in Range(transformed_texts') \ Range(uncached_texts')}
             IN /\ LRUKeys(constraints_cache') = LRUKeys(constraints_cache)
                /\ \A i, j \in DOMAIN constraints_cache' :
                      i < j /\ constraints_cache'[i].key \in hits =>
                         constraints_cache'[j].key \in hits)
       /\ \A k \in LRUKeys(constraints_cache) \ LRUKeys(constraints_cache') :
             k = constraints_cache[1].key
       /\ (InCall /\ evicted \cap HitsOfCall # {} =>
             LRUKeys(constraints_cache) \subseteq HitsOfCall \cup WrittenByCall)]_vars

\* C11 witness: in a full cache of two entries the call hit one pair and
\* wrote another; the write dropped the pair the call had not touched and
\* the hit pair is still there.
C11_Witness ==
    /\ pc = "uncached_done"
    /\ constraint_cache_size = 2
    /\ Len(constraints_cache) = 2
    /\ evicted # {}
    /\ evicted \cap (HitsOfCall \cup WrittenByCall) = {}
    /\ \E k \in HitsOfCall : LRUContains(constraints_cache, k)

\* C18: filter_transformations never fails on a missing cache entry: when
\* it comes to read the verdicts, every candidate of the call has an entry,
\* whatever the capacity of the cache.
C18_NoMissingCacheEntry ==
    /\ (pc = "uncached_done" =>
          \A t \in Range(transformed_texts) : LRUContains(constraints_cache, Key(t)))
    /\ ~(pc = "raised" /\ call_error = [kind |-> "KeyError", detail |-> "constraints_cache"])

\* What an engine with the same constraints and no cache returns: the
\* candidates run through the constraints in order, then sorted by text.
RECURSIVE Pipeline(_, _, _, _)
Pipeline(c, texts, x, orig) ==
    IF ~LoopContinues(c, texts) THEN texts
    ELSE Pipeline(c + 1, call_many(constraints[c], texts, x, orig), x, orig)

\* C19: every call that returns, whatever calls came before it on the same
\* engine, returns the list an engine without a cache would return for its
\* arguments.
C19_CacheTransparent ==
    pc = "returned" =>
        result = SortByText(Pipeline(1, transformed_texts, current_text, original_text))

(***************************************************************************)
(* Properties of the dataset traversal, checked under SpecDataset.         *)
(***************************************************************************)
GroundTruth == dataset[cur_index + 1].ground_truth_output

\* C5: an example whose initial evaluation reports succeeded is never
\* handed to the search method; get_result is called once for it; exactly
\* one outcome is yielded for it, a Skipped outcome whose result's output is
\* the dataset's ground-truth output.
C5_SkippedPath ==
    /\ (ds_pc \in {"evaluated", "searched", "yielded"} /\ initial_result.succeeded =>
          /\ ds_pc # "searched"
          /\ search_calls = 0
          /\ get_result_calls = 1
          /\ Len(yielded) = IF ds_pc = "yielded" THEN taken ELSE taken - 1)
    /\ (ds_pc = "yielded" /\ initial_result.succeeded =>
          /\ outcome = [kind |-> "Skipped", result |-> initial_result]
          /\ outcome.result.output = GroundTruth
          /\ yielded[taken] = cur_index)

\* C5 witness: the second example of a traversal was skipped, and the
\* output the goal function reported for it was not the ground truth.
C5_Witness ==
    /\ ds_pc = "yielded"
    /\ taken = 2
    /\ outcome.kind = "Skipped"
    /\ reported_output # GroundTruth

\* C6: attack_one calls the search method once, with the initial result;
\* the outcome is Successful exactly when the final result has succeeded,
\* Failed otherwise, and carries the initial result, the final result and
\* the query counter as it stands after the search.
C6_SuccessfulFailedSplit ==
    /\ (ds_pc = "searched" => search_calls = 1 /\ search_arg = initial_result)
    /\ (ds_pc = "yielded" /\ ~initial_result.succeeded =>
          /\ search_calls = 1
          /\ search_arg = initial_result
          /\ outcome.kind = IF final_result.succeeded THEN "Successful" ELSE "Failed"
          /\ outcome.initial = initial_result
          /\ outcome.final = final_result
          /\ outcome.num_queries = num_queries
          /\ num_queries = GetResultQueries + search_queries)

\* C6 witness: a search that made a query of its own succeeded.
C6_Witness ==
    /\ ds_pc = "yielded"
    /\ outcome.kind = "Successful"
    /\ search_queries = 1
    /\ outcome.num_queries = 2

\* C7: an index outside the dataset's bounds, once popped, raises IndexError
\* and nothing else happens for it; the error carries the index and the
\* size of the dataset; the indices before it have had their outcomes.
C7_OutOfBoundsRaises ==
    /\ (taken > 0 /\ ~InBounds(dataset, cur_index) => ds_pc = "raised")
    /\ (ds_pc = "raised" =>
          /\ ~InBounds(dataset, cur_index)
          /\ ds_error = [kind |-> "IndexError", size |-> Len(dataset),
                         index |-> cur_index]
          /\ Len(yielded) = taken - 1
          /\ outcome = NoOutcome)

\* C7 witness: the second index of a traversal over a non-empty dataset was
\* out of bounds.
C7_Witness ==
    /\ ds_pc = "raised"
    /\ taken = 2
    /\ Len(dataset) > 0
    /\ ds_error.index >= Len(dataset)

IsPrefix(a, b) == Len(a) <= Len(b) /\ SubSeq(b, 1, Len(a)) = a

\* The indices the caller asked for: the sequence supplied, or every index
\* of the dataset when none was supplied.
RequestedIndices ==
    IF indices_arg.kind = "None" THEN RangeLen(dataset) ELSE indices_arg.items

\* C12: with every requested index in bounds, the outcomes are yielded one
\* per element of the supplied sequence, in its order (none for a supplied
\* empty sequence), and one per dataset index in ascending order only when
\* no sequence was supplied.
C12_OneOutcomePerIndex ==
    (\A j \in DOMAIN RequestedIndices : InBounds(dataset, RequestedIndices[j])) =>
        /\ IsPrefix(yielded, RequestedIndices)
        /\ (ds_pc = "exhausted" => yielded = RequestedIndices)

\* C13: the query counter is reset once per example, after the previous
\* example's outcome was yielded and before the initial evaluation, so a
\* Successful or Failed outcome carries the queries of its own example:
\* the initial evaluation's and the search's.
C13_QueriesPerExample ==
    /\ (ds_pc = "example" => query_resets = 0 /\ Len(yielded) = taken - 1)
    /\ (ds_pc \in {"evaluated", "searched", "yielded"} => query_resets = 1)
    /\ (ds_pc = "yielded" /\ outcome.kind \in {"Successful", "Failed"} =>
          outcome.num_queries = GetResultQueries + search_queries)

\* C13 witness: the second example's search made a query and failed; its
\* outcome carries two queries, none of them the first example's.
C13_Witness ==
    /\ ds_pc = "yielded"
    /\ taken = 2
    /\ Len(yielded) = 2
    /\ outcome.kind = "Failed"
    /\ search_queries = 1
    /\ outcome.num_queries = 2

\* C14: the step that raises the bounds error yields nothing, calls neither
\* the goal function nor the search method, and leaves the cache and the
\* constraint lists as they were; the outcomes yielded before it are those
\* of the earlier indices of the queue, in order.
C14_AbortKeepsEngineState ==
    [][ds_pc' = "raised" =>
          /\ constraints_cache' = constraints_cache
          /\ constraints' = constraints
          /\ pre_transformation_constraints' = pre_transformation_constraints
          /\ constraint_cache_size' = constraint_cache_size
          /\ yielded' = yielded
          /\ yielded' = SubSeq(IndexQueue(indices_arg, dataset).items, 1, taken' - 1)
          /\ outcome' = NoOutcome
          /\ get_result_calls' = 0
          /\ search_calls' = 0]_vars

\* C14 witness: the bounds error was raised after an earlier example had
\* been attacked and had left an entry in the cache.
C14_Witness ==
    /\ ds_pc = "raised"
    /\ taken = 2
    /\ Len(yielded) = 1
    /\ constraints_cache # <<>>

\* C20: the sequence object the caller passed as indices holds what it held
\* when attack_dataset was called.
C20_CallerIndicesUnchanged == caller_indices = indices_arg

(***************************************************************************)
(* Properties of error propagation, checked under SpecSearch.              *)
(***************************************************************************)
MissingAttribute == [kind |-> "KeyError", detail |-> "newly_modified_indices"]

\* The last call_many invocation of the call under way was
\* WordEmbeddingDistance over a candidate without newly_modified_indices.
NeededMissingAttribute ==
    /\ invocations # <<>>
    /\ constraints[invocations[Len(invocations)].c] = "WordEmbeddingDistance"
    /\ Range(invocations[Len(invocations)].texts) \cap unmarked # {}

\* C15, the states: when WordEmbeddingDistance is run over a candidate that
\* lacks newly_modified_indices the call raises the missing-attribute error
\* and no candidate of that invocation has a verdict in the cache; while
\* the error is on its way and once it has reached the consumer, no outcome
\* has been yielded for the example.
C15_NoSilentVerdict ==
    /\ (NeededMissingAttribute =>
          /\ pc = "raised"
          /\ call_error = MissingAttribute
          /\ ds_pc \in {"searching", "raised"}
          /\ \A t \in Range(invocations[Len(invocations)].texts) :
                ~LRUContains(constraints_cache, Key(t)))
    /\ (pc = "raised" =>
          /\ ds_pc \in {"searching", "raised"}
          /\ Len(yielded) = taken - 1
          /\ outcome = NoOutcome)
    /\ (ds_pc = "raised" /\ ds_error.kind # "IndexError" =>
          pc = "raised" /\ ds_error = call_error)

\* C15: the missing-attribute error of WordEmbeddingDistance is raised and
\* passes uncaught through the constraint pipeline, filter_transformations,
\* get_transformations, the search and the traversal to the consumer; the
\* candidate gets no verdict and the example no outcome.
C15_MissingAttributePropagates ==
    /\ []C15_NoSilentVerdict
    /\ [][pc = "raised" /\ ds_pc = "searching" =>
             /\ ds_pc' = "raised"
             /\ ds_error' = call_error
             /\ yielded' = yielded
             /\ constraints_cache' = constraints_cache]_vars

\* C15 witness: the second example's search met a candidate without the
\* attribute, and the error has reached the consumer after the first
\* example's outcome.
C15_Witness ==
    /\ ds_pc = "raised"
    /\ ds_error = MissingAttribute
    /\ taken = 2
    /\ Len(yielded) = 1

(***************************************************************************)
(* Properties of WordEmbeddingDistance, checked under SpecEmbedding.       *)
(***************************************************************************)
\* The word of a text at a (0-based) index as the constraint looks it up.
LookedUp(text, i) == IF cased THEN text[i + 1] ELSE Lower(text[i + 1])

\* What the constraint is documented to decide at one modified index.
AcceptsAt(x, x_adv, i) ==
    LET w == LookedUp(x, i)
        w_adv == LookedUp(x_adv, i)
    IN IF w \in DOMAIN word_embedding_word2index
          /\ w_adv \in DOMAIN word_embedding_word2index
       THEN LET e1 == word_embeddings[word_embedding_word2index[w]]
                e2 == word_embeddings[word_embedding_word2index[w_adv]]
            IN /\ (min_cos_sim.set => CosineSimilarity(e1, e2) >= min_cos_sim.val)
               /\ (max_mse_dist.set => SquaredDistance(e1, e2) <= max_mse_dist.val)
       ELSE include_unknown_words

\* C16: for a candidate with any number of newly modified indices,
\* _check_constraint returns a boolean: true exactly when every modified
\* index passes the thresholds (or has a word without embedding while
\* unknown words are included).
C16_ReturnsBooleanForAnyIndices ==
    wed_call.fn = "_check_constraint" /\ wed_call.has_indices =>
        /\ wed_call.kind = "bool"
        /\ wed_call.bool_val =
              (\A j \in DOMAIN wed_call.indices :
                  AcceptsAt(wed_call.x, wed_call.x_adv, wed_call.indices[j]))

\* C17: get_cos_sim and get_mse_dist return the value for every pair of
\* word ids in either order; a pair not stored is computed and stored under
\* (min, max), a stored pair is returned without computing.
C17_LookupReturnsValue ==
    /\ wed_call.fn = "get_cos_sim" =>
          /\ wed_call.kind = "value"
          /\ wed_call.num_val = CosineSimilarity(word_embeddings[wed_call.a],
                                                 word_embeddings[wed_call.b])
          /\ Stored(cos_sim_mat, wed_call.a, wed_call.b)
          /\ wed_call.computed = ~wed_call.stored_before
    /\ wed_call.fn = "get_mse_dist" =>
          /\ wed_call.kind = "value"
          /\ wed_call.num_val = SquaredDistance(word_embeddings[wed_call.a],
                                                word_embeddings[wed_call.b])
          /\ Stored(mse_dist_mat, wed_call.a, wed_call.b)
          /\ wed_call.computed = ~wed_call.stored_before

(***************************************************************************)
(* Properties of the constructor, checked under SpecInit.                  *)
(***************************************************************************)
AllPresent ==
    /\ ~Not(init_args.goal_function)
    /\ ~Not(init_args.search_method)
    /\ ~Not(init_args.transformation)

\* C9: construction succeeds exactly when the three components are present
\* and the search method accepts the transformation; a missing component
\* raises NameError, an incompatibility ValueError; no callback is bound
\* unless construction succeeds, and the compatibility query is never made
\* with a missing transformation.
C9_ConstructionErrors ==
    /\ (ctor_pc = "constructed" => AllPresent /\ sm_compatible /\ ctor_error = "none")
    /\ (ctor_pc = "raised" =>
          /\ (~AllPresent => ctor_error = "NameError")
          /\ (AllPresent => ~sm_compatible /\ ctor_error = "ValueError"))
    /\ (ctor_pc # "constructed" => bound = {})
    /\ (ctor_pc \notin {"constructed", "raised"} => ctor_error = "none")
    /\ \A j \in DOMAIN compat_queries : compat_queries[j] \notin {"None", "unset"}

\* C9 witness: the search method refused a transformation that was present.
C9_Witness ==
    /\ ctor_pc = "raised"
    /\ ctor_error = "ValueError"
    /\ compat_queries = <<init_args.transformation>>
    /\ bound = {}

====
